---- MODULE Spec2Model ----
(* Model of kotto's agent execution controller (AgentController in mod.ts): *)
(* the tick loop, capability dispatch, builtin handling and the error       *)
(* classification of tick's catch block.                                    *)
(*                                                                          *)
(* Representation:                                                          *)
(*  - a capability/reply name is the sequence of its "."-separated segments *)
(*    ("builtins.exit" is <<"builtins","exit">>, "builtins." is             *)
(*    <<"builtins","">>), so String.split(".") is the identity on it;       *)
(*  - JS objects are TLA+ records, "key in obj" is key \in DOMAIN obj;      *)
(*  - a text (prompt, message content) is a record [tpl, body] naming the   *)
(*    template operation that produced it and the strings it embeds;        *)
(*  - an error is a record [kind, message, inner_error, output].            *)
EXTENDS Naturals, Sequences, FiniteSets, TLC

\* ------------------------------------------------------------------ bounds
MaxHistory == 2
MaxRegs == 3

\* ------------------------------------------------------- program constants
max_retries == 5

Undefined == "undefined"

\* ------------------------------------------------------------ input domains
Outputs == {Undefined, "5"}

\* argument lists of a reply: none, one, two arguments
ArgLists == {<<>>, <<"2">>, <<"2", "3">>}

ExitName == <<"builtins", "exit">>

ReplyNames ==
  { <<"add">>, <<"notfn">>, <<"ghost">>, <<"secret">>, <<"builtins">>,
    ExitName, <<"builtins", "">>, <<"builtins", "foo">>,
    <<"builtins", "exit", "foo">> }

\* FunctionCall: {name, arguments}
Calls == [name : ReplyNames, arguments : ArgLists]

NoCall == [name |-> <<>>, arguments |-> <<>>]

\* A completion string returned by the model client: either text that is not
\* a well-formed call object, or the JSON text of a call.
Garbage == [wellformed |-> FALSE, call |-> NoCall]
JsonOf(call) == [wellformed |-> TRUE, call |-> call]
Completions == {Garbage} \cup {JsonOf(c) : c \in Calls}

\* ------------------------------------------------------------------ errors
NoErr == [kind |-> "none", message |-> <<>>, inner_error |-> "none", output |-> Undefined]

Feedback(msg) == [kind |-> "Feedback", message |-> msg, inner_error |-> "none", output |-> Undefined]
Interrupt(inner) == [kind |-> "Interrupt", message |-> <<>>, inner_error |-> inner, output |-> Undefined]
Internal(msg) == [kind |-> "Internal", message |-> msg, inner_error |-> "none", output |-> Undefined]
Exit(out) == [kind |-> "Exit", message |-> <<>>, inner_error |-> "none", output |-> out]
TypeError(msg) == [kind |-> "TypeError", message |-> msg, inner_error |-> "none", output |-> Undefined]
Error(msg) == [kind |-> "Error", message |-> msg, inner_error |-> "none", output |-> Undefined]

\* the application error wrapped by an Interrupt
InnerError(e) == Error(<<e.inner_error>>)

\* errors the model client, a capability implementation or a template may
\* throw on their own
EnvErrors ==
  { Error(<<"backend failure">>), Feedback(<<"wrong argument">>),
    Interrupt("application error"), Internal(<<"defect">>), Exit("5") }

\* ------------------------------------------------- Capability Registry
\* ExportsMap wraps a JS Map: a sequence of [key, descriptor] entries in
\* insertion order with at most one entry per key.
EmptyMap == <<>>

MapHas(m, key) == \E i \in 1..Len(m) : m[i].key = key

\* a set that always appends, as pushing onto an array would
MapSetAppend(m, key, descriptor) ==
  Append(m, [key |-> key, descriptor |-> descriptor])

\* a set that deletes an existing key and re-inserts it at the end
MapSetMoveToEnd(m, key, descriptor) ==
  SelectSeq(m, LAMBDA e : e.key # key)
    \o <<[key |-> key, descriptor |-> descriptor]>>

\* Map.prototype.set: overwrite in place when the key exists, else append
MapSet(m, key, descriptor) ==
  IF MapHas(m, key)
    THEN [i \in 1..Len(m) |-> IF m[i].key = key
                                THEN [key |-> key, descriptor |-> descriptor]
                                ELSE m[i]]
    ELSE Append(m, [key |-> key, descriptor |-> descriptor])

NoDescriptor == [property_key |-> <<>>, adder |-> Undefined]

\* Map.prototype.get: the descriptor, or undefined (NoDescriptor)
MapGet(m, key) ==
  IF MapHas(m, key)
    THEN (CHOOSE e \in {m[i] : i \in 1..Len(m)} : e.key = key).descriptor
    ELSE NoDescriptor

\* the @use decorator: registers property_key with an adder that contributes
\* the method declaration of that property to a scope
use(exports, property_key) ==
  MapSet(exports, property_key,
         [property_key |-> property_key, adder |-> property_key[1]])

\* ExportsMap.forEach: the descriptors in the order they are visited
ForEachVisits(m) == [i \in 1..Len(m) |-> m[i].descriptor]

\* the agent of the model: add is a method registered with @use, notfn is a
\* registered property that is not a function, secret is a method that was
\* never registered
AgentExports == use(use(EmptyMap, <<"add">>), <<"notfn">>)

AgentTypeOf(property_key) ==
  IF property_key \in {<<"add">>, <<"secret">>} THEN "function"
  ELSE IF property_key = <<"notfn">> THEN "number"
  ELSE "undefined"

\* ------------------------------------------------------------- Template
NoText == [tpl |-> "none", body |-> <<>>]

\* Template.renderContext(scope): the context prompt embedding the scope's
\* declarations in order
TemplateRenderContext(scope) == [tpl |-> "context", body |-> scope]

\* Template.renderOutput(output): the serialized output, a null placeholder
\* when it is absent
TemplateRenderOutput(output) ==
  [tpl |-> "output", body |-> <<IF output = Undefined THEN "null" ELSE output>>]

\* Template.renderError(err): a diagnostic describing the error followed by
\* a restatement of the required reply shape
TemplateRenderError(err) ==
  [tpl |-> "error", body |-> <<err.kind>> \o err.message \o <<"required reply shape">>]

\* a bare string used as a prompt (an error's message)
RawText(message) == [tpl |-> "raw", body |-> message]

\* Template.parseResponse(completion): the call, or a thrown ParseError
ParseFails(completion) == ~completion.wellformed
ParseResponse(completion) == completion.call

\* ------------------------------------------------------ AgentController
\* opts.allow_exit ?? true
AllowExit(o) == IF o.allow_exit = Undefined THEN TRUE ELSE o.allow_exit = "true"

\* AgentController.renderContext
RECURSIVE AddAll(_, _)
AddAll(scope, m) ==
  IF m = <<>> THEN scope
  ELSE AddAll(Append(scope, Head(m).descriptor.adder), Tail(m))

renderContext(exports, o) ==
  LET scope0 == AddAll(<<>>, exports)
      scope == IF AllowExit(o) THEN Append(scope0, "builtins.exit") ELSE scope0
  IN TemplateRenderContext(scope)

\* isExited testing the output's value instead of the key's presence
isExitedDefined(p) == "output" \in DOMAIN p /\ p.output # Undefined

\* isExited / isPending
isExited(p) == "output" \in DOMAIN p
isPending(p) == "prompt" \in DOMAIN p

\* String.startsWith("builtins.")
IsBuiltinName(name) == Len(name) >= 2 /\ name[1] = "builtins"

\* name.split(".")[1]
BuiltinOf(name) == name[2]

\* a handleBuiltin that exits with the last argument instead of the first
handleBuiltinLast(call) ==
  IF BuiltinOf(call.name) = "exit"
    THEN IF Len(call.arguments) = 0
           THEN Exit(Undefined)
           ELSE Exit(call.arguments[Len(call.arguments)])
    ELSE Internal(<<"unknown builtin", BuiltinOf(call.name)>>)

\* AgentController.handleBuiltin: the error it throws
handleBuiltin(call) ==
  IF BuiltinOf(call.name) = "exit"
    THEN IF Len(call.arguments) = 0
           THEN Exit(Undefined)
           ELSE Exit(call.arguments[1])
    ELSE Internal(<<"unknown builtin", BuiltinOf(call.name)>>)

NotAFunction(name) == TypeError(name \o <<"is not a function">>)

\* a doAction that looks the reply's name up on the agent itself, without
\* consulting the registry
doActionDirect(exports, call) ==
  IF IsBuiltinName(call.name) THEN handleBuiltin(call)
  ELSE IF AgentTypeOf(call.name) # "function" THEN NotAFunction(call.name)
  ELSE NoErr

\* AgentController.doAction up to the invocation of the callable: the error
\* thrown before any invocation, or NoErr when the callable is invoked
doActionThrows(exports, call) ==
  IF IsBuiltinName(call.name) THEN handleBuiltin(call)
  ELSE IF MapGet(exports, call.name) = NoDescriptor THEN NotAFunction(call.name)
  ELSE IF AgentTypeOf(MapGet(exports, call.name).property_key) # "function"
         THEN NotAFunction(call.name)
  ELSE NoErr

\* doAction overwriting the last History entry instead of pushing
doActionOverwrite(h, call, output) ==
  IF h = <<>> THEN <<[call |-> call, output |-> output]>>
  ELSE [h EXCEPT ![Len(h)] = [call |-> call, output |-> output]]

\* doAction inserting the Action at the front of History
doActionUnshift(h, call, output) == <<[call |-> call, output |-> output]>> \o h

\* doAction after the callable returned: action.output = output; history.push
doActionPush(h, call, output) == Append(h, [call |-> call, output |-> output])

\* the retry budget test off by one
BudgetExhaustedLate(r) == r > max_retries

\* tick's retry budget test
BudgetExhausted(r) == r >= max_retries

\* prompt selection that tests for an empty History before looking at the
\* explicit prompt
SelectPromptContextFirst(pending, h, exports, o) ==
  IF Len(h) = 0 THEN renderContext(exports, o)
  ELSE IF "prompt" \in DOMAIN pending THEN pending.prompt
  ELSE TemplateRenderOutput(h[Len(h)].output)

\* prompt selection rendering the first History entry instead of the last
SelectPromptFirst(pending, h, exports, o) ==
  IF "prompt" \in DOMAIN pending THEN pending.prompt
  ELSE IF Len(h) = 0 THEN renderContext(exports, o)
  ELSE TemplateRenderOutput(h[1].output)

\* complete(): prompt selection
SelectPrompt(pending, h, exports, o) ==
  IF "prompt" \in DOMAIN pending THEN pending.prompt
  ELSE IF Len(h) = 0 THEN renderContext(exports, o)
  ELSE TemplateRenderOutput(h[Len(h)].output)

\* complete(): the Feedback raised for an unparsable completion
CouldNotExtract(completion) ==
  Feedback(<<"could not extract JSON from your response", "<completion>">>)

\* ------------------------------------------------------------------ state
VARIABLES
  pc,        \* where runToCompletion stands: "idle" (between ticks), "llm"
             \* (tick awaits llm.complete), "call" (tick awaits the
             \* capability), "returned", "raised"
  tick,      \* runToCompletion's local: NoTick, or the last tick's result
  history,   \* AgentController.history
  retries,   \* AgentController.retries
  opts,      \* AgentController.opts
  sent,      \* the message handed to llm.complete by the latest tick
  action,    \* the Action built from the latest tick's parsed reply
  invoked,   \* whether the latest tick invoked an agent callable
  caught,    \* the error caught by the latest tick's catch block
  thrown,    \* the error that propagated out of runToCompletion
  returned,  \* the value runToCompletion returned
  retries0,  \* retries at the start of the latest tick
  history0,  \* history at the start of the latest tick
  streak,    \* number of consecutive ticks, up to the latest, that caught a
             \* Feedback or unclassified error
  flags,     \* the entry point used and the allow_exit flag its caller gave
  registry,  \* an ExportsMap under registration (agent-type definition time)
  registered,\* the registrations made on registry so far, in order
  ctl,       \* two AgentController instances running concurrently
  log_level, \* Logger.log_level, the process-wide logging verbosity
  who        \* the controller that took the latest step of ctl (0: none)

vars == <<pc, tick, history, retries, opts, sent, action, invoked, caught,
          thrown, returned, retries0, history0, streak, flags, registry,
          registered, ctl, log_level, who>>

\* the single controller driven by runToCompletion
runvars == <<pc, tick, history, retries, opts, sent, action, invoked, caught,
             thrown, returned, retries0, history0, streak, flags>>

\* the registry under registration
regvars == <<registry, registered>>

\* the two concurrent controllers and the logger
twovars == <<ctl, log_level, who>>

\* let tick = undefined
NoTick == [undefined |-> TRUE]
NoMsg == [role |-> "none", content |-> NoText]
NoAction == [call |-> NoCall]

\* tick falling back on complete()'s default role "system"
TickArgSystem(t) == IF "undefined" \in DOMAIN t THEN [role |-> "system"] ELSE t

\* tick's default parameter: undefined becomes {role: "user"}
TickArg(t) == IF "undefined" \in DOMAIN t THEN [role |-> "user"] ELSE t

Recoverable(err) == err.kind \notin {"none", "Interrupt", "Internal", "Exit"}

\* a catch block in which unclassified errors do not draw on the counter
TickCatchSeparate(err, r) ==
  IF BudgetExhausted(r)
    THEN [throws |-> TRUE, thrown |-> err, result |-> NoTick, retries |-> r]
  ELSE IF err.kind = "Feedback"
    THEN [throws |-> FALSE, thrown |-> NoErr,
          result |-> [prompt |-> RawText(err.message), role |-> "system"],
          retries |-> r + 1]
  ELSE IF err.kind = "Interrupt"
    THEN [throws |-> TRUE, thrown |-> InnerError(err), result |-> NoTick, retries |-> r]
  ELSE IF err.kind = "Internal"
    THEN [throws |-> TRUE, thrown |-> err, result |-> NoTick, retries |-> r]
  ELSE IF err.kind = "Exit"
    THEN [throws |-> FALSE, thrown |-> NoErr,
          result |-> [output |-> err.output], retries |-> r]
  ELSE [throws |-> FALSE, thrown |-> NoErr,
        result |-> [role |-> "system", prompt |-> TemplateRenderError(err)],
        retries |-> r]

\* tick's catch block: what it throws or returns for err with retries = r
TickCatch(err, r) ==
  IF BudgetExhausted(r)
    THEN [throws |-> TRUE, thrown |-> err, result |-> NoTick, retries |-> r]
  ELSE IF err.kind = "Feedback"
    THEN [throws |-> FALSE, thrown |-> NoErr,
          result |-> [prompt |-> RawText(err.message), role |-> "system"],
          retries |-> r + 1]
  ELSE IF err.kind = "Interrupt"
    THEN [throws |-> TRUE, thrown |-> InnerError(err), result |-> NoTick, retries |-> r]
  ELSE IF err.kind = "Internal"
    THEN [throws |-> TRUE, thrown |-> err, result |-> NoTick, retries |-> r]
  ELSE IF err.kind = "Exit"
    THEN [throws |-> FALSE, thrown |-> NoErr,
          result |-> [output |-> err.output], retries |-> r]
  ELSE [throws |-> FALSE, thrown |-> NoErr,
        result |-> [role |-> "system", prompt |-> TemplateRenderError(err)],
        retries |-> r + 1]

\* a loop that re-invokes the capability, without a new exchange, when the
\* tick that awaited it returned a corrective Pending
ResumeRetryCall(result) ==
  /\ tick' = result
  /\ IF isExited(result)
       THEN pc' = "returned" /\ returned' = result.output
       ELSE /\ pc' = IF pc = "call" /\ "prompt" \in DOMAIN result
                       THEN "call" ELSE "idle"
            /\ UNCHANGED returned
  /\ UNCHANGED thrown

\* runToCompletion's loop body after tick returned result
Resume(result) ==
  /\ tick' = result
  /\ IF isExited(result)
       THEN pc' = "returned" /\ returned' = result.output
       ELSE pc' = "idle" /\ UNCHANGED returned
  /\ UNCHANGED thrown

\* the tick threw err inside its try block
Catch(err) ==
  LET c == TickCatch(err, retries) IN
  /\ caught' = err
  /\ retries' = c.retries
  /\ streak' = IF Recoverable(err) THEN streak + 1 ELSE streak
  /\ IF c.throws
       THEN pc' = "raised" /\ thrown' = c.thrown /\ UNCHANGED <<tick, returned>>
       ELSE Resume(c.result)

\* run(): new AgentController(opts.agent, prompts, model), no options given
runOpts(f) == [allow_exit |-> Undefined]

\* makeController(): new AgentController(agent, prompts, model,
\* {allow_exit: opts.allow_exit})
makeControllerOpts(f) == [allow_exit |-> f.allow_exit]

\* the opts of the Controller the entry point constructs
ControllerOpts(f) ==
  IF f.entry = "run" THEN runOpts(f) ELSE makeControllerOpts(f)

\* the registrations that built the agent's exports
AgentRegistrations ==
  << [key |-> <<"add">>, descriptor |-> MapGet(AgentExports, <<"add">>)],
     [key |-> <<"notfn">>, descriptor |-> MapGet(AgentExports, <<"notfn">>)] >>

\* the registry is the finished registry of the agent
RegIdle ==
  /\ registry = AgentExports
  /\ registered = AgentRegistrations

\* no second controller is modelled
TwoIdle ==
  /\ ctl = <<>>
  /\ log_level = "quiet"
  /\ who = 0

Init ==
  /\ pc = "idle"
  /\ tick = NoTick
  /\ history = <<>>
  /\ retries = 0
  /\ flags \in [entry : {"run", "makeController"},
                allow_exit : {"true", "false", Undefined}]
  /\ opts = ControllerOpts(flags)
  /\ sent = NoMsg
  /\ action = NoAction
  /\ invoked = FALSE
  /\ caught = NoErr
  /\ thrown = NoErr
  /\ returned = Undefined
  /\ retries0 = 0
  /\ history0 = <<>>
  /\ streak = 0
  /\ RegIdle
  /\ TwoIdle

\* tick -> complete: the prompt is chosen and handed to llm.complete
TickStart ==
  /\ pc = "idle"
  /\ pc' = "llm"
  /\ sent' = [role |-> TickArg(tick).role,
              content |-> SelectPrompt(TickArg(tick), history, AgentExports, opts)]
  /\ action' = NoAction
  /\ invoked' = FALSE
  /\ caught' = NoErr
  /\ retries0' = retries
  /\ history0' = history
  /\ UNCHANGED <<tick, history, retries, opts, thrown, returned, streak>>
  /\ UNCHANGED <<flags, regvars, twovars>>

\* tick -> complete: rendering the prompt throws, nothing is sent
RenderThrows ==
  /\ pc = "idle"
  /\ "prompt" \notin DOMAIN TickArg(tick)
  /\ sent' = NoMsg
  /\ action' = NoAction
  /\ invoked' = FALSE
  /\ retries0' = retries
  /\ history0' = history
  /\ \E err \in EnvErrors : Catch(err)
  /\ UNCHANGED <<history, opts>>
  /\ UNCHANGED <<flags, regvars, twovars>>

\* llm.complete throws
LlmThrows ==
  /\ pc = "llm"
  /\ \E err \in EnvErrors : Catch(err)
  /\ UNCHANGED <<history, opts, sent, action, invoked, retries0, history0>>
  /\ UNCHANGED <<flags, regvars, twovars>>

\* llm.complete returns a completion: parse it and dispatch the call up to
\* the invocation of the agent callable
LlmReturns ==
  /\ pc = "llm"
  /\ \E completion \in Completions :
       IF ParseFails(completion)
         THEN /\ Catch(CouldNotExtract(completion))
              /\ UNCHANGED <<action, invoked>>
         ELSE LET call == ParseResponse(completion)
                  err == doActionThrows(AgentExports, call)
              IN /\ action' = [call |-> call]
                 /\ IF err = NoErr
                      THEN /\ pc' = "call"
                           /\ invoked' = TRUE
                           /\ UNCHANGED <<tick, retries, caught, thrown,
                                          returned, streak>>
                      ELSE /\ Catch(err)
                           /\ UNCHANGED invoked
  /\ UNCHANGED <<history, opts, sent, retries0, history0>>
  /\ UNCHANGED <<flags, regvars, twovars>>

\* the agent callable returns output: the Action is recorded, tick succeeds
CallReturns ==
  /\ pc = "call"
  /\ Len(history) < MaxHistory
  /\ \E output \in Outputs :
       history' = doActionPush(history, action.call, output)
  /\ retries' = 0
  /\ streak' = 0
  /\ Resume([role |-> "user"])
  /\ UNCHANGED <<opts, sent, action, invoked, caught, retries0, history0>>
  /\ UNCHANGED <<flags, regvars, twovars>>

\* the agent callable throws
CallThrows ==
  /\ pc = "call"
  /\ \E err \in EnvErrors : Catch(err)
  /\ UNCHANGED <<history, opts, sent, action, invoked, retries0, history0>>
  /\ UNCHANGED <<flags, regvars, twovars>>

\* ----------------------------------------------- registry under registration
\* names registered and the classes whose declaration an adder contributes
RegNames == {<<"add">>, <<"sub">>, <<"mul">>}
Adders == {"A", "B"}

\* the controller has been constructed by run() and has not ticked
RunIdle ==
  /\ pc = "idle"
  /\ tick = NoTick
  /\ history = <<>>
  /\ retries = 0
  /\ flags = [entry |-> "run", allow_exit |-> Undefined]
  /\ opts = ControllerOpts(flags)
  /\ sent = NoMsg
  /\ action = NoAction
  /\ invoked = FALSE
  /\ caught = NoErr
  /\ thrown = NoErr
  /\ returned = Undefined
  /\ retries0 = 0
  /\ history0 = <<>>
  /\ streak = 0

InitReg ==
  /\ RunIdle
  /\ registry = EmptyMap
  /\ registered = <<>>
  /\ TwoIdle

\* ExportsMap.insert(property_key, descriptor)
RegInsert ==
  /\ Len(registered) < MaxRegs
  /\ \E k \in RegNames, a \in Adders :
       LET d == [property_key |-> k, adder |-> a] IN
       /\ registry' = MapSet(registry, k, d)
       /\ registered' = Append(registered, [key |-> k, descriptor |-> d])
  /\ UNCHANGED <<runvars, twovars>>

\* the @use decorator applied to a method
RegUse ==
  /\ Len(registered) < MaxRegs
  /\ \E k \in RegNames :
       /\ registry' = use(registry, k)
       /\ registered' = Append(registered,
                               [key |-> k, descriptor |-> MapGet(use(EmptyMap, k), k)])
  /\ UNCHANGED <<runvars, twovars>>

NextReg ==
  \/ RegInsert
  \/ RegUse

SpecReg == InitReg /\ [][NextReg]_vars

\* --------------------------------------------- two concurrent controllers
\* handler(): one Controller per request, each driven by run()
Ctls == {1, 2}

TwoCompletions ==
  { Garbage,
    JsonOf([name |-> <<"add">>, arguments |-> <<>>]),
    JsonOf([name |-> ExitName, arguments |-> <<"2">>]) }
TwoOutputs == {"5"}
TwoErrors == {Error(<<"backend failure">>), Interrupt("application error")}
LogLevels == {"trace", "quiet"}

\* the fields of a freshly constructed controller and its driver's locals
CtlInit ==
  [pc |-> "idle", tick |-> NoTick, history |-> <<>>, retries |-> 0,
   call |-> NoCall, thrown |-> NoErr]

\* tick's catch block and runToCompletion's loop test, on controller c
CtlCatch(c, err) ==
  LET k == TickCatch(err, c.retries) IN
  IF k.throws
    THEN [c EXCEPT !.retries = k.retries, !.pc = "raised", !.thrown = k.thrown]
    ELSE [c EXCEPT !.retries = k.retries, !.tick = k.result,
                   !.pc = IF isExited(k.result) THEN "returned" ELSE "idle"]

\* tick -> complete -> llm.complete is awaited
CtlStart(c) == [c EXCEPT !.pc = "llm"]

\* llm.complete returned: parse and dispatch up to the callable
CtlLlmReturns(c, completion) ==
  IF ParseFails(completion) THEN CtlCatch(c, CouldNotExtract(completion))
  ELSE LET call == ParseResponse(completion)
           err == doActionThrows(AgentExports, call)
       IN IF err = NoErr THEN [c EXCEPT !.pc = "call", !.call = call]
          ELSE CtlCatch(c, err)

\* the callable returned: push the Action, reset retries, return {role: "user"}
CtlCallReturns(c, output) ==
  [c EXCEPT !.history = doActionPush(c.history, c.call, output),
            !.retries = 0, !.tick = [role |-> "user"], !.pc = "idle"]

\* history and retries held in one place shared by all instances
StoreShared(f, i, c) ==
  [j \in DOMAIN f |->
     IF j = i THEN c
     ELSE [f[j] EXCEPT !.history = c.history, !.retries = c.retries]]

\* history, retries are instance fields: a step of controller i writes to
\* controller i only
Store(f, i, c) == [f EXCEPT ![i] = c]

InitTwo ==
  /\ RunIdle
  /\ RegIdle
  /\ ctl = [i \in Ctls |-> CtlInit]
  /\ log_level = "quiet"
  /\ who = 0

TwoTickStart ==
  /\ \E i \in Ctls :
       /\ ctl[i].pc = "idle"
       /\ ctl' = Store(ctl, i, CtlStart(ctl[i]))
       /\ who' = i
  /\ UNCHANGED <<log_level, runvars, regvars>>

TwoLlmReturns ==
  /\ \E i \in Ctls, completion \in TwoCompletions :
       /\ ctl[i].pc = "llm"
       /\ ctl' = Store(ctl, i, CtlLlmReturns(ctl[i], completion))
       /\ who' = i
  /\ UNCHANGED <<log_level, runvars, regvars>>

TwoLlmThrows ==
  /\ \E i \in Ctls, err \in TwoErrors :
       /\ ctl[i].pc = "llm"
       /\ ctl' = Store(ctl, i, CtlCatch(ctl[i], err))
       /\ who' = i
  /\ UNCHANGED <<log_level, runvars, regvars>>

TwoCallReturns ==
  /\ \E i \in Ctls, output \in TwoOutputs :
       /\ ctl[i].pc = "call"
       /\ Len(ctl[i].history) < MaxHistory
       /\ ctl' = Store(ctl, i, CtlCallReturns(ctl[i], output))
       /\ who' = i
  /\ UNCHANGED <<log_level, runvars, regvars>>

TwoCallThrows ==
  /\ \E i \in Ctls, err \in TwoErrors :
       /\ ctl[i].pc = "call"
       /\ ctl' = Store(ctl, i, CtlCatch(ctl[i], err))
       /\ who' = i
  /\ UNCHANGED <<log_level, runvars, regvars>>

\* setLogLevel(level)
SetLogLevel ==
  /\ \E level \in LogLevels :
       /\ level # log_level
       /\ log_level' = level
  /\ who' = 0
  /\ UNCHANGED <<ctl, runvars, regvars>>

NextTwo ==
  \/ TwoTickStart
  \/ TwoLlmReturns
  \/ TwoLlmThrows
  \/ TwoCallReturns
  \/ TwoCallThrows
  \/ SetLogLevel

SpecTwo == InitTwo /\ [][NextTwo]_vars

Next ==
  \/ TickStart
  \/ RenderThrows
  \/ LlmThrows
  \/ LlmReturns
  \/ CallReturns
  \/ CallThrows

Spec == Init /\ [][Next]_vars

TypeOK ==
  /\ pc \in {"idle", "llm", "call", "returned", "raised"}
  /\ retries \in 0..max_retries
  /\ Len(history) <= MaxHistory

\* ------------------------------------------------------------- properties
\* at least one tick has run and no tick is in progress
TickDone ==
  /\ pc \in {"idle", "returned", "raised"}
  /\ (sent # NoMsg \/ caught # NoErr)

\* the latest tick dispatched a capability successfully
Succeeded == pc = "idle" /\ invoked /\ caught = NoErr

Range(seq) == {seq[i] : i \in 1..Len(seq)}

\* C1: a tick that catches the k-th consecutive recoverable error (Feedback
\* or unclassified), counted from the start or from the last successful
\* dispatch, returns a corrective Pending and the loop continues when
\* k <= max_retries; the (max_retries+1)-th is re-raised unmodified out of
\* runToCompletion.
C1_RetryBudget ==
  (TickDone /\ Recoverable(caught)) =>
    /\ streak <= max_retries + 1
    /\ (streak <= max_retries =>
          /\ pc = "idle"
          /\ "prompt" \in DOMAIN tick
          /\ tick.role = "system"
          /\ thrown = NoErr)
    /\ (streak = max_retries + 1 =>
          /\ pc = "raised"
          /\ thrown = caught)

C1_Witness ==
  /\ pc = "raised"
  /\ Recoverable(caught)
  /\ thrown = caught
  /\ streak = max_retries + 1
  /\ Len(history) = 1

\* C2: after a tick whose exchange, parse and dispatch all succeed, retries
\* is 0 and History is the previous History extended by exactly one entry,
\* the dispatched Action with its output.
C2_SuccessfulTick ==
  Succeeded =>
    /\ retries = 0
    /\ Len(history) = Len(history0) + 1
    /\ SubSeq(history, 1, Len(history0)) = history0
    /\ history[Len(history)].call = action.call
    /\ history[Len(history)].output \in Outputs

C2_Witness ==
  /\ Succeeded
  /\ retries0 = max_retries
  /\ retries = 0
  /\ Len(history0) = 1
  /\ Len(history) = 2

\* C3: whenever the parsed reply names builtins.exit (with zero or one
\* argument), whatever the retry counter, the tick returns Exited and
\* runToCompletion returns its output (undefined for no argument, v for the
\* argument v) instead of raising.
C3_ExitNotFailure ==
  (TickDone /\ action.call.name = ExitName /\ Len(action.call.arguments) <= 1) =>
    /\ pc = "returned"
    /\ "output" \in DOMAIN tick
    /\ returned = (IF action.call.arguments = <<>> THEN Undefined
                   ELSE action.call.arguments[1])
    /\ thrown = NoErr

\* C4: whenever a tick catches an Interrupt, whatever the retry counter, it
\* returns no Pending, leaves retries unchanged, and the error propagating
\* out of runToCompletion is the Interrupt's inner error, never the wrapper.
C4_InterruptUnwrapped ==
  (TickDone /\ caught.kind = "Interrupt") =>
    /\ pc = "raised"
    /\ retries = retries0
    /\ thrown = InnerError(caught)
    /\ thrown.kind # "Interrupt"

\* the reply names a non-builtin that is absent from the registry or whose
\* target is not invokable
Undispatchable(name) ==
  /\ name # <<>>
  /\ ~IsBuiltinName(name)
  /\ \/ MapGet(AgentExports, name) = NoDescriptor
     \/ AgentTypeOf(MapGet(AgentExports, name).property_key) # "function"

\* C5: dispatching such a name raises a Feedback-classified error, so with
\* retries < max_retries the tick returns {role: "system", prompt:
\* error.message}.
C5_UnknownIsFeedback ==
  (TickDone /\ Undispatchable(action.call.name)) =>
    /\ caught.kind = "Feedback"
    /\ (retries0 < max_retries =>
          /\ pc = "idle"
          /\ tick = [role |-> "system", prompt |-> RawText(caught.message)])

\* C6: every reply name builtins.<x> other than exactly builtins.exit makes
\* dispatch raise Internal, which the tick re-raises without touching
\* retries or producing a Pending.
C6_OtherBuiltinIsInternal ==
  (TickDone /\ IsBuiltinName(action.call.name) /\ action.call.name # ExitName) =>
    /\ caught.kind = "Internal"
    /\ pc = "raised"
    /\ thrown = caught
    /\ retries = retries0

\* C7: once a tick has returned an Exited value nothing changes any more
\* (no tick, exchange or dispatch) and runToCompletion has returned its
\* output; runToCompletion has returned only if the tick result is Exited,
\* so after every other result it goes on to the next tick.
C7_ExitedIsTerminal ==
  [][ /\ ("output" \in DOMAIN tick => UNCHANGED vars)
      /\ (("output" \in DOMAIN tick') <=> pc' = "returned")
      /\ (pc' = "returned" => returned' = tick'.output)
    ]_vars

C7_Witness ==
  /\ pc = "returned"
  /\ "output" \in DOMAIN tick
  /\ tick.output = Undefined
  /\ returned = Undefined

\* C8: every value tick returns satisfies exactly one of isPending and
\* isExited.
C8_TaggedVariant ==
  "undefined" \notin DOMAIN tick => (isPending(tick) # isExited(tick))

\* C9: the message a tick exchanges is the explicit prompt it received if
\* any, else render_context when History is empty, else render_output of
\* the last History entry's output.
C9_PromptSelection ==
  pc \in {"llm", "call"} =>
    sent.content =
      (IF "prompt" \in DOMAIN tick THEN tick.prompt
       ELSE IF history0 = <<>> THEN renderContext(AgentExports, opts)
       ELSE TemplateRenderOutput(history0[Len(history0)].output))

C9_Witness ==
  /\ pc = "llm"
  /\ "prompt" \notin DOMAIN tick
  /\ Len(history) = 2
  /\ history[1].output # history[2].output
  /\ sent.content = TemplateRenderOutput(history[2].output)

RestatesShape(text) == "required reply shape" \in Range(text.body)

\* C10: when the reply cannot be parsed and retries is 0, the tick returns
\* a system-role Pending whose prompt is a diagnostic plus a restatement of
\* the required reply shape, retries becomes 1, no capability is invoked
\* and History is unchanged.
C10_MalformedReply ==
  (TickDone /\ caught = CouldNotExtract(Garbage) /\ retries0 = 0) =>
    /\ pc = "idle"
    /\ "prompt" \in DOMAIN tick
    /\ tick.role = "system"
    /\ RestatesShape(tick.prompt)
    /\ retries = 1
    /\ ~invoked
    /\ history = history0

\* C11: Feedback and unclassified errors draw on one counter: with budget
\* left either kind increments retries by exactly 1 and yields a
\* system-role Pending, whose prompt is error.message for Feedback and
\* render_error(error) otherwise; with retries = max_retries either kind is
\* re-raised.
C11_SharedBudget ==
  (TickDone /\ Recoverable(caught)) =>
    /\ (retries0 < max_retries =>
          /\ retries = retries0 + 1
          /\ pc = "idle"
          /\ tick = [role |-> "system",
                     prompt |-> IF caught.kind = "Feedback"
                                  THEN RawText(caught.message)
                                  ELSE TemplateRenderError(caught)])
    /\ (retries0 = max_retries =>
          /\ retries = retries0
          /\ pc = "raised"
          /\ thrown = caught)

\* an unclassified error re-raised right after a Feedback was converted
C11_Witness ==
  /\ pc = "raised"
  /\ caught.kind = "Error"
  /\ thrown = caught
  /\ retries0 = max_retries
  /\ "prompt" \in DOMAIN tick
  /\ tick.prompt.tpl = "raw"

\* C12: the Controller built by run() puts the builtins.exit declaration in
\* the context scope if and only if the caller's allow_exit is true or
\* unspecified.
C12_RunHonoursAllowExit ==
  (flags.entry = "run" /\ sent.content.tpl = "context") =>
    (("builtins.exit" \in Range(sent.content.body)) <=> flags.allow_exit # "false")

\* C16: for a Controller constructed with allow_exit = false, a reply
\* naming builtins.exit does not end the run with an Exited value.
C16_ExitNotPermitted ==
  (opts.allow_exit = "false" /\ TickDone /\ action.call.name = ExitName) =>
    ~(pc = "returned" /\ "output" \in DOMAIN tick)

IsPrefix(a, b) == Len(a) <= Len(b) /\ SubSeq(b, 1, Len(a)) = a

\* C17: History is append-only: every step leaves the previous History a
\* prefix of the new one, grows it by at most one entry and only when a
\* capability dispatch succeeds; a tick that caught any error leaves it as
\* it was when the tick started.
C17_HistoryAppendOnly ==
  [][ /\ IsPrefix(history, history')
      /\ Len(history') <= Len(history) + 1
      /\ (history' # history => pc = "call" /\ Succeeded')
      /\ ((TickDone' /\ caught' # NoErr) => history' = history0')
    ]_vars

\* a capability threw after an earlier one had been recorded
C17_Witness ==
  /\ TickDone
  /\ invoked
  /\ caught.kind = "Error"
  /\ Len(history) = 1
  /\ history = history0

\* C18: retries stays within 0..max_retries; it changes only by being set
\* to 0 by a successful tick or by growing by 1 when a Feedback or
\* unclassified error becomes a Pending; ticks that end in Exit,
\* Interrupt, Internal or a re-raise leave it unchanged.
C18_RetriesDiscipline ==
  [][ /\ retries' \in 0..max_retries
      /\ (retries' # retries =>
            \/ Succeeded' /\ retries' = 0
            \/ /\ Recoverable(caught')
               /\ pc' = "idle"
               /\ "prompt" \in DOMAIN tick'
               /\ retries' = retries + 1)
      /\ ((TickDone' /\ (caught'.kind \in {"Exit", "Interrupt", "Internal"}
                          \/ pc' = "raised"))
            => retries' = retries0')
    ]_vars

\* an Exit left a counter that stood at 3 after a successful tick unchanged
C18_Witness ==
  /\ pc = "returned"
  /\ caught.kind = "Exit"
  /\ retries0 = 3
  /\ retries = 3
  /\ Len(history) = 1

C20_OneExchangeOneCall ==
  [][ /\ (pc' = "llm" => pc \in {"idle", "llm"})
      /\ (pc = "llm" /\ pc' = "llm" => UNCHANGED vars)
      /\ (pc' = "call" /\ ~UNCHANGED vars =>
            /\ pc = "llm"
            /\ sent # NoMsg
            /\ sent' = sent
            /\ action'.call \in Calls)
      /\ (invoked' => action'.call \in Calls /\ sent' # NoMsg)
      /\ ((TickDone' /\ (sent' = NoMsg \/ action' = NoAction)) => ~invoked')
    ]_vars

\* a tick whose reply did not parse ended without an invocation
C20_Witness ==
  /\ TickDone
  /\ sent # NoMsg
  /\ caught = CouldNotExtract(Garbage)
  /\ action = NoAction
  /\ ~invoked

\* ------------------------------------------------- registry properties
\* the descriptor of the last registration made for key, if any
LastRegistered(regs, key) ==
  LET idx == {i \in 1..Len(regs) : regs[i].key = key} IN
  IF idx = {} THEN NoDescriptor
  ELSE regs[CHOOSE i \in idx : \A j \in idx : j <= i].descriptor

\* the keys of regs in the order of their first registration
RECURSIVE FirstKeys(_)
FirstKeys(regs) ==
  IF regs = <<>> THEN <<>>
  ELSE LET init == FirstKeys(SubSeq(regs, 1, Len(regs) - 1))
           k == regs[Len(regs)].key
       IN IF k \in Range(init) THEN init ELSE Append(init, k)

\* a is obtained from b by deleting elements
RECURSIVE IsSubsequence(_, _)
IsSubsequence(a, b) ==
  IF a = <<>> THEN TRUE
  ELSE IF b = <<>> THEN FALSE
  ELSE IF Head(a) = Head(b) THEN IsSubsequence(Tail(a), Tail(b))
  ELSE IsSubsequence(a, Tail(b))

\* C13: after any sequence of registrations get(name) is the descriptor of
\* the last registration made for name and absent for a name never
\* registered; the registry holds at most one entry per name; registering
\* the last (name, descriptor) once more leaves the registry as it is.
C13_RegistryUpsert ==
  /\ \A k \in RegNames \cup {<<"ghost">>} :
       /\ MapGet(registry, k) = LastRegistered(registered, k)
       /\ Cardinality({i \in 1..Len(registry) : registry[i].key = k}) <= 1
  /\ (registered # <<>> =>
        LET l == registered[Len(registered)]
        IN MapSet(registry, l.key, l.descriptor) = registry)

\* a name registered, another registered, the first registered again with
\* another descriptor
Reregistered ==
  /\ Len(registered) = 3
  /\ registered[1].key = registered[3].key
  /\ registered[1].descriptor # registered[3].descriptor
  /\ registered[2].key # registered[1].key

C13_Witness ==
  /\ Reregistered
  /\ Len(registry) = 2
  /\ MapGet(registry, registered[1].key) = registered[3].descriptor
  /\ MapGet(registry, <<"mul">>) = NoDescriptor

\* C14 as stated: forEach visits the descriptors in the order in which their
\* registrations were made, re-registrations included.
C14_RegistrationOrder ==
  IsSubsequence(ForEachVisits(registry),
                [i \in 1..Len(registered) |-> registered[i].descriptor])

\* C14 as amended: forEach visits one descriptor per name, in the order in
\* which the names were first registered, each being the name's last
\* registered descriptor; scope adders contribute in that order.
C14_FirstRegistrationOrder ==
  /\ [i \in 1..Len(registry) |-> registry[i].key] = FirstKeys(registered)
  /\ \A i \in 1..Len(registry) :
       ForEachVisits(registry)[i] = LastRegistered(registered, registry[i].key)
  /\ AddAll(<<>>, registry) =
       [i \in 1..Len(registry) |-> ForEachVisits(registry)[i].adder]

C14_Witness ==
  /\ Reregistered
  /\ ForEachVisits(registry) =
       <<registered[3].descriptor, registered[2].descriptor>>

\* ------------------------------------------- two-controller properties
\* what one step of a controller in state c can make of it, given only its
\* own model reply or capability result
OwnSteps(c) ==
  IF c.pc = "idle" THEN {CtlStart(c)}
  ELSE IF c.pc = "llm"
    THEN {CtlLlmReturns(c, x) : x \in TwoCompletions}
           \cup {CtlCatch(c, e) : e \in TwoErrors}
  ELSE IF c.pc = "call"
    THEN {CtlCallReturns(c, o) : o \in TwoOutputs}
           \cup {CtlCatch(c, e) : e \in TwoErrors}
  ELSE {}

\* C15: with two controllers interleaved at their suspension points, a step
\* of one leaves the other's History, retries and tick result as they
\* were, a controller changes only as its own reply or result dictates,
\* and changing the logging level changes no controller.
C15_ControllersIndependent ==
  [][ /\ \A i \in Ctls : who' # i => ctl'[i] = ctl[i]
      /\ \A i \in Ctls : ctl'[i] # ctl[i] => ctl'[i] \in OwnSteps(ctl[i])
      /\ (log_level' # log_level => ctl' = ctl)
    ]_vars

\* controller 1 has recorded an Action and failed twice while controller 2
\* awaits its first capability call, tracing switched on meanwhile
C15_Witness ==
  /\ ctl # <<>>
  /\ Len(ctl[1].history) = 1
  /\ ctl[1].retries = 2
  /\ ctl[2].pc = "call"
  /\ ctl[2].history = <<>>
  /\ ctl[2].retries = 0
  /\ log_level = "trace"

\* ------------------------------------------------- further run properties
\* C21: render_context is used only by the first tick of a run: a tick
\* sends the context only when it is the first tick (and History is
\* empty), and every later tick either carries an explicit prompt or finds
\* History non-empty.
C21_ContextOnlyFirstTick ==
  [][ /\ (pc = "idle" /\ pc' = "llm" /\ sent'.content.tpl = "context"
            => "undefined" \in DOMAIN tick /\ history = <<>>)
      /\ (pc' = "idle" /\ "undefined" \notin DOMAIN tick'
            => "prompt" \in DOMAIN tick' \/ history' # <<>>)
    ]_vars

\* the first tick failed when the model client threw; the second tick
\* sends the corrective prompt, not the context, with History still empty
C21_Witness ==
  /\ pc = "llm"
  /\ history = <<>>
  /\ "prompt" \in DOMAIN tick
  /\ tick.prompt.tpl = "error"
  /\ sent.content = tick.prompt
  /\ retries = 1

\* the reply's name is dispatchable to an agent callable
Dispatchable(name) ==
  /\ ~IsBuiltinName(name)
  /\ MapHas(AgentExports, name)
  /\ AgentTypeOf(MapGet(AgentExports, name).property_key) = "function"

\* C22: an agent callable is invoked only for a reply whose name does not
\* start with "builtins.", is a key of the registry and names a function of
\* the agent; for every other reply nothing is invoked and History is
\* unchanged.
C22_OnlyRegisteredInvoked ==
  /\ (invoked => Dispatchable(action.call.name))
  /\ ((TickDone /\ action # NoAction /\ ~Dispatchable(action.call.name))
        => ~invoked /\ history = history0)

\* the reply named a method of the agent that was never registered
C22_Witness ==
  /\ TickDone
  /\ action.call.name = <<"secret">>
  /\ AgentTypeOf(action.call.name) = "function"
  /\ ~invoked
  /\ caught.kind = "TypeError"
  /\ history = history0

\* C23: counting the ticks since the last successful one (streak), every
\* tick that does not succeed either ends the run or adds one to the count,
\* and a run that is still going has a count of at most max_retries: a run
\* in which no further tick succeeds ends within max_retries + 1 ticks.
C23_BoundedFailureRuns ==
  [][ /\ ((pc' \in {"idle", "returned", "raised"} /\ ~Succeeded')
            => \/ pc' \in {"returned", "raised"}
               \/ streak' = streak + 1)
      /\ (pc' \in {"idle", "llm", "call"} => streak' <= max_retries)
      /\ (Succeeded' => streak' = 0)
    ]_vars

\* after a success and max_retries failed ticks the next tick ended the run
C23_Witness ==
  /\ pc = "raised"
  /\ caught.kind = "Internal"
  /\ streak = max_retries
  /\ Len(history) = 1

\* C24: a builtins.exit reply with two or more arguments is not rejected:
\* it raises Exit carrying the first argument, and with retries <
\* max_retries the tick returns Exited with output = arguments[0].
C24_ExitExtraArguments ==
  (TickDone /\ action.call.name = ExitName /\ Len(action.call.arguments) >= 2) =>
    /\ caught = Exit(action.call.arguments[1])
    /\ (retries0 < max_retries =>
          /\ pc = "returned"
          /\ tick = [output |-> action.call.arguments[1]]
          /\ returned = action.call.arguments[1])

C24_Witness ==
  /\ pc = "returned"
  /\ action.call = [name |-> ExitName, arguments |-> <<"2", "3">>]
  /\ returned = "2"
  /\ retries0 = 2

====
